---------------------------- MODULE Spec2Model ----------------------------
(***************************************************************************)
(* Model of src/medical.py: the Streamlit script main().  Every user       *)
(* interaction reruns main() from the top: the run first loads the main    *)
(* member list (lines 22-50), publishes the normalized table in            *)
(* st.session_state['data'] and then computes the one view selected in     *)
(* the sidebar (lines 52-319).  st.session_state outlives the run.         *)
(*                                                                         *)
(* Numbers that Python rounds to two decimals are kept in hundredths       *)
(* (1.5 is 150).  Dates are day numbers.                                   *)
(***************************************************************************)
EXTENDS Integers, Sequences, FiniteSets, TLC

VARIABLES
    session_state,  \* st.session_state: a function whose domain is {} or {"data"}
    pc,             \* position of the script: "idle" (no run), "load", "view"
    option,         \* the sidebar selection of the current run
    now,            \* the day pd.Timestamp.now() fell on at the last load
    messages,       \* st.error / st.warning calls of the current run
    output,         \* what the view of the current run rendered
    load_ok,        \* history: the load of the current run reached line 46
    published,      \* history: the table line 46 stored at the last successful load
    source,         \* history: the file rows and the day of the last successful load
    memo            \* history: one earlier view computation (table published, option, output)

vars == <<session_state, pc, option, now, messages, output, load_ok, published,
          source, memo>>

-----------------------------------------------------------------------------
(* Bounds of the model *)

MaxRows == 2        \* rows of the main list after its header
MaxLeavers == 1     \* rows of the leavers list after its header
MaxRowsIdem == 1    \* rows of the main list in the specification SpecIdem

-----------------------------------------------------------------------------
(* Cell values *)

\* A missing cell of a text column (pandas NaN)
nan == "<NaN>"
\* A missing timestamp and a missing number
NaT == [kind |-> "NaT", v |-> 0]
NaN == [kind |-> "NaN", v |-> 0]
Timestamp(d) == [kind |-> "Timestamp", v |-> d]
Num(n) == [kind |-> "num", v |-> n]

\* Raw date cells: a spreadsheet date cell, the text "05-Jan-1990" (%d-%b-%Y),
\* a day-first text in another layout ("05/01/1990"), text that is no date
\* ("N/A"), and an empty cell.  v is the day the cell denotes.
DateCell(k, d) == [kind |-> k, v |-> d]

\* Line 36: pd.to_datetime(..., format='%d-%b-%Y', errors='coerce', dayfirst=True)
to_datetime_format(cell) ==
    IF cell.kind \in {"datetime", "dmy"} THEN Timestamp(cell.v) ELSE NaT

\* Line 37: pd.to_datetime(..., errors='coerce', dayfirst=True)
to_datetime(cell) ==
    IF cell.kind \in {"datetime", "dmy", "dayfirst"} THEN Timestamp(cell.v) ELSE NaT

\* Line 40: (pd.Timestamp.now() - birth).dt.days // 365; NaT gives NaN
DaysPerYear == 365
Age(t, birth) ==
    IF birth.kind = "Timestamp" THEN Num((t - birth.v) \div DaysPerYear) ELSE NaN

\* Classify with the flag compared without regard to case
ClassifyAnyCase(x) == IF x \in {"Y", "y"} THEN "Member" ELSE "Dependent"

\* Line 43: lambda x: "Member" if x == "Y" else "Dependent"
Classify(x) == IF x = "Y" THEN "Member" ELSE "Dependent"

-----------------------------------------------------------------------------
(* Schema binding *)

\* Lines 24-27
column_names == <<"Member Number", "Surname", "Other Name(s)", "Relationship", "CAT",
                  "P/Cont", "Birth Date", "Sex", "Entry Date", "Family Al Size",
                  "Status">>

Columns == {column_names[i] : i \in DOMAIN column_names}
Position(c) == CHOOSE i \in DOMAIN column_names : column_names[i] = c

\* names=column_names: the cells of a row are named by position
Bind(cells) == [c \in Columns |-> cells[Position(c)]]

\* Lines 18-19: the path is a literal; only its extension is looked at
data_file_path == [stem |-> "data/Full List", ext |-> ".xlsx"]
endswith(path, suffix) == path.ext = suffix

\* Lines 35-43 on one bound row
NormalizeRow(r, t) ==
    LET birth == to_datetime_format(r["Birth Date"])
    IN  [c \in Columns \cup {"Age"} |->
            CASE c = "Birth Date"   -> birth
              [] c = "Entry Date"   -> to_datetime(r["Entry Date"])
              [] c = "Age"          -> Age(t, birth)
              [] c = "Relationship" -> Classify(r["P/Cont"])
              [] OTHER              -> r[c]]

\* Normalize with the rows whose birth date does not parse dropped
NormalizeDropna(rows, t) ==
    LET Parses(cells) == to_datetime_format(cells[7]).kind = "Timestamp"
        kept == SelectSeq(rows, Parses)
    IN  [i \in DOMAIN kept |-> NormalizeRow(Bind(kept[i]), t)]

\* Lines 30-43: the DataFrame the try block builds from the rows the reader yields
Normalize(rows, t) == [i \in DOMAIN rows |-> NormalizeRow(Bind(rows[i]), t)]

\* Lines 23-50: the try block.  The reader raises on a file it cannot read and on
\* a sheet with fewer columns than names; a path that is neither .csv nor .xlsx
\* leaves `data` unbound, and line 36 raises.  Every exception reaches line 48.
load_main(file, t) ==
    IF ~(endswith(data_file_path, ".csv") \/ endswith(data_file_path, ".xlsx"))
    THEN [ok |-> FALSE, data |-> <<>>]
    ELSE IF ~file.readable \/ file.ncols < Len(column_names)
    THEN [ok |-> FALSE, data |-> <<>>]
    ELSE [ok |-> TRUE, data |-> Normalize(file.rows, t)]


-----------------------------------------------------------------------------
(* Aggregation helpers (what the pandas calls of the views compute) *)

\* data[data[col] == val]: the positions of the rows selected
Where(data, col, val) == {i \in DOMAIN data : data[i][col] = val}

\* round(n / d, 2) in hundredths, d > 0.  Python rounds the quotient to the nearest
\* hundredth and an exactly representable tie (d a multiple of 8) to the even one.
Round2(n, d) ==
    LET t == 200 * n + d
        q == t \div (2 * d)
    IN  IF t % (2 * d) = 0 /\ q % 2 = 1 THEN q - 1 ELSE q

RECURSIVE SumAge(_, _)
SumAge(data, S) ==
    IF S = {} THEN 0
    ELSE LET i == CHOOSE j \in S : TRUE
         IN  data[i]["Age"].v + SumAge(data, S \ {i})

\* round(Series.mean(), 2) over the rows at positions S: pandas skips NaN, and
\* the mean of no values is NaN, which round() leaves NaN
MeanAge(data, S) ==
    LET q == {i \in S : data[i]["Age"].kind = "num"}
    IN  IF q = {} THEN NaN ELSE Num(Round2(SumAge(data, q), Cardinality(q)))

\* Series.value_counts(): counts of the values present, NaN left out
value_counts(data, col) ==
    [x \in {data[i][col] : i \in DOMAIN data} \ {nan} |->
        Cardinality(Where(data, col, x))]

\* data.groupby([a, b]).size(): the pairs present, rows with a NaN key left out
groupby_size(data, a, b) ==
    [k \in {<<data[i][a], data[i][b]>> :
              i \in {j \in DOMAIN data : data[j][a] # nan /\ data[j][b] # nan}} |->
        Cardinality({i \in DOMAIN data : data[i][a] = k[1] /\ data[i][b] = k[2]})]

\* pd.crosstab(data[a], data[b]): a dense grid over the values present
crosstab(data, a, b) ==
    LET keep == {j \in DOMAIN data : data[j][a] # nan /\ data[j][b] # nan}
    IN  [x \in {data[i][a] : i \in keep} |->
            [y \in {data[i][b] : i \in keep} |->
                Cardinality({i \in keep : data[i][a] = x /\ data[i][b] = y})]]

\* data.groupby(col)['Age'].mean().round(2)
groupby_mean_age(data, col) ==
    [x \in {data[i][col] : i \in DOMAIN data} \ {nan} |->
        MeanAge(data, Where(data, col, x))]

\* data[col].fillna(val) stored back into the column
fillna(data, col, val) ==
    [i \in DOMAIN data |->
        [data[i] EXCEPT ![col] = IF @ = nan THEN val ELSE @]]

\* Ratio without the guard on the denominator
RatioUnguarded(dependents, members) ==
    IF members = 0 THEN [kind |-> "ZeroDivisionError", v |-> 0]
    ELSE Num(Round2(dependents, members))

\* round(dependents / members, 2) if members > 0 else 0   (lines 107 and 144)
Ratio(dependents, members) ==
    IF members > 0 THEN Num(Round2(dependents, members)) ELSE Num(0)

-----------------------------------------------------------------------------
(* The views of the main list, as functions of the table they are given *)

\* Lines 58-91
DashboardOverview(data) ==
    LET members == Where(data, "Relationship", "Member")
        dependents == Where(data, "Relationship", "Dependent")
        InRange(r) == /\ r["Relationship"] = "Dependent"
                      /\ r["Age"].kind = "num"
                      /\ r["Age"].v >= 21
                      /\ r["Age"].v <= 26
        Shown(r) == [c \in {"Member Number", "Surname", "Other Name(s)", "Age"} |-> r[c]]
        picked == SelectSeq(data, InRange)
    IN  [view |-> "Dashboard Overview",
         total_staff |-> Cardinality(members),
         total_dependents |-> Cardinality(dependents),
         avg_age_staff |-> MeanAge(data, members),
         avg_age_dependents |-> MeanAge(data, dependents),
         gender_distribution |-> value_counts(data, "Sex"),
         dependents_between_21_and_26 |-> [i \in DOMAIN picked |-> Shown(picked[i])]]

\* Lines 95-96
LoadData(data) == [view |-> "Load Data", table |-> data]

\* Lines 103-121
StaffVsDependents(data) ==
    LET staff_count == Cardinality(Where(data, "Relationship", "Member"))
        dependent_count == Cardinality(Where(data, "Relationship", "Dependent"))
    IN  [view |-> "Staff vs Dependents",
         staff_count |-> staff_count,
         dependent_count |-> dependent_count,
         average_dependents_per_staff |-> Ratio(dependent_count, staff_count),
         rel_breakdown |-> value_counts(data, "Relationship")]

\* Lines 128-131: the box plot draws Age against Relationship, one point per row
AgeDistribution(data) ==
    [view |-> "Age Distribution",
     points |-> [i \in DOMAIN data |-> <<data[i]["Relationship"], data[i]["Age"]>>]]

\* Lines 138-149
FamilyAnalysis(data) ==
    LET total_families == Cardinality(Where(data, "Relationship", "Dependent"))
        members == Cardinality(Where(data, "Relationship", "Member"))
    IN  [view |-> "Family Analysis",
         family_breakdown |-> value_counts(data, "Relationship"),
         total_families |-> total_families,
         average_dependents_per_family |-> Ratio(total_families, members)]

\* Lines 156-170
GenderDistribution(data) ==
    [view |-> "Gender Distribution",
     gender_by_relationship |-> groupby_size(data, "Relationship", "Sex")]

\* Line 182: the assignment writes the column of the DataFrame that
\* st.session_state['data'] refers to
CleanCAT(data) == fillna(data, "CAT", "Not Specified")

\* Lines 184-211, on the table line 182 left
CategoryAnalysis(data) ==
    [view |-> "Current Members Category Analysis",
     cat_distribution |-> value_counts(data, "CAT"),
     cat_by_relationship |-> crosstab(data, "CAT", "Relationship"),
     avg_age_by_cat |-> groupby_mean_age(data, "CAT")]

-----------------------------------------------------------------------------
(* The leavers list and its two views *)

\* Lines 20, 227 and 271
leaver_columns == <<"NAMES", "DATE OF BIRTH", "SEX", "RELATIONSHIP", "CAT">>

BindLeaver(cells) ==
    [c \in {leaver_columns[i] : i \in DOMAIN leaver_columns} |->
        cells[CHOOSE i \in DOMAIN leaver_columns : leaver_columns[i] = c]]

\* Lines 228-230 and 272-274: read, coerce the birth date, derive the age
LeaversTable(rows, t) ==
    [i \in DOMAIN rows |->
        LET r == BindLeaver(rows[i])
            birth == to_datetime_format(r["DATE OF BIRTH"])
        IN  [c \in DOMAIN r \cup {"Age"} |->
                CASE c = "DATE OF BIRTH" -> birth
                  [] c = "Age"           -> Age(t, birth)
                  [] OTHER               -> r[c]]]

\* Line 234: str.strip().str.upper() on the texts the leavers rows of the model hold
StripUpper(s) ==
    CASE s = " m" -> "M"
      [] s = "f " -> "F"
      [] OTHER    -> s

\* Lines 233-237: drop the rows without SEX, clean SEX, keep two relationship labels
LeaversFiltered(table) ==
    LET Has(r) == r["SEX"] # nan
        kept == SelectSeq(table, Has)
        cleaned == [i \in DOMAIN kept |-> [kept[i] EXCEPT !["SEX"] = StripUpper(@)]]
        Listed(r) == r["RELATIONSHIP"] \in {"EMPLOYEE", "DEPENDENT"}
    IN  SelectSeq(cleaned, Listed)

\* Lines 239-262
LeaversAnalysis(rows, t) ==
    LET f == LeaversFiltered(LeaversTable(rows, t))
    IN  [view |-> "Leavers Analysis",
         table |-> f,
         rel_breakdown |-> value_counts(f, "RELATIONSHIP"),
         gender_breakdown |-> value_counts(f, "SEX"),
         total_leavers |-> Len(f),
         total_employees |-> Cardinality(Where(f, "RELATIONSHIP", "EMPLOYEE")),
         total_dependents |-> Cardinality(Where(f, "RELATIONSHIP", "DEPENDENT")),
         avg_age_leavers |-> MeanAge(f, DOMAIN f)]

\* Lines 276-316; the statistics frame of lines 310-315 ends in fillna(0)
LeaversCategoryAnalysis(rows, t) ==
    LET d == fillna(LeaversTable(rows, t), "CAT", "Not Specified")
        cats == {d[i]["CAT"] : i \in DOMAIN d}
        Zero(x) == IF x = NaN THEN Num(0) ELSE x
    IN  [view |-> "Leavers Category Analysis",
         cat_distribution |-> value_counts(d, "CAT"),
         cat_by_relationship |-> crosstab(d, "CAT", "RELATIONSHIP"),
         avg_age_by_cat |-> groupby_mean_age(d, "CAT"),
         cat_stats |->
            [x \in cats |->
                [total |-> Cardinality(Where(d, "CAT", x)),
                 average_age |-> Zero(MeanAge(d, Where(d, "CAT", x))),
                 employees |-> Cardinality({i \in Where(d, "CAT", x) :
                                              d[i]["RELATIONSHIP"] = "EMPLOYEE"}),
                 dependents |-> Cardinality({i \in Where(d, "CAT", x) :
                                               d[i]["RELATIONSHIP"] = "DEPENDENT"})]]]

-----------------------------------------------------------------------------
(* Inputs: the files on disk, the clock and the sidebar *)

\* Lines 13-15
Options == {"Dashboard Overview", "Load Data", "Staff vs Dependents",
            "Age Distribution", "Family Analysis", "Gender Distribution",
            "Leavers Analysis", "Current Members Category Analysis",
            "Leavers Category Analysis"}

\* The views that read st.session_state['data']
TableViews == Options \ {"Leavers Analysis", "Leavers Category Analysis"}

\* Days the clock can show: a member born on day 0 is 25 on both, one born on
\* day 1 turns 25 on the second
Nows == {9125, 9126}

\* Rows of the main list, cells in the order of column_names
RowA == <<"1", "Abe", "K", "Spouse", "A", "Y", DateCell("dmy", 0), "M",
          DateCell("datetime", 8000), "3", "Active">>
RowB == <<"2", "Bo", "L", "Member", nan, "N", DateCell("text", 0), "F",
          DateCell("text", 0), "3", "Active">>
RowC == <<"3", "Cy", "M", "Child", "B", nan, DateCell("dmy", 1), "F",
          DateCell("dayfirst", 8500), "2", "Active">>
RowD == <<"4", "Di", "N", "Member", "A", "y", DateCell("datetime", 9200), nan,
          DateCell("blank", 0), "1", "Suspended">>
RowE == <<"5", "Ed", "O", nan, nan, "Y", DateCell("dayfirst", 2000), "M",
          DateCell("dmy", 9000), "1", "Active">>

Rows == {RowA, RowB, RowC, RowD, RowE}
RowsIdem == {RowA, RowB, RowC}

\* Two longer lists: 2 dependents to 3 members, and three dependents of known age
LongLists == {<<RowC, RowB, RowA, RowE, RowA>>, <<RowC, RowC, RowD>>}

LeaverRows == {<<"Gus", DateCell("dmy", 0), " m", "EMPLOYEE", "A">>,
               <<"Hal", DateCell("text", 0), "F", "DEPENDENT", nan>>,
               <<"Ida", DateCell("datetime", 1), nan, "SPOUSE", "B">>}

SeqsUpTo(S, n) == UNION {[1..k -> S] : k \in 0..n}

\* A file is what the pandas reader finds at the path: whether it opens, how many
\* columns it has, and the rows the reader yields once skiprows=1 and its own
\* header handling have discarded the leading line(s).
\* A file the reader cannot open, and a sheet of 9 columns
Unreadable == [readable |-> FALSE, ncols |-> 0, rows |-> <<>>]
NineColumns == [readable |-> TRUE, ncols |-> 9,
                rows |-> <<<<"1", "Abe", "K", "A", "Y", "M", "3", "x", "Active">>>>]

FilesOf(S, n) ==
    {[readable |-> TRUE, ncols |-> Len(column_names), rows |-> r] : r \in SeqsUpTo(S, n)}
        \cup {Unreadable, NineColumns}

Files ==
    FilesOf(Rows, MaxRows)
        \cup {[readable |-> TRUE, ncols |-> Len(column_names), rows |-> r] : r \in LongLists}
FilesIdem == FilesOf(RowsIdem, MaxRowsIdem)

LeaverFiles ==
    {[readable |-> TRUE, ncols |-> Len(leaver_columns), rows |-> r] :
        r \in SeqsUpTo(LeaverRows, MaxLeavers)} \cup {Unreadable}

-----------------------------------------------------------------------------
(* State *)

NoOutput == [view |-> "none"]
NoTable == [set |-> FALSE, data |-> <<>>]
NoSource == [set |-> FALSE, rows |-> <<>>, now |-> 0]
NoMemo == [set |-> FALSE, option |-> "none", table |-> <<>>, now |-> 0,
           output |-> NoOutput]

Error(text) == [level |-> "error", text |-> text]

Init ==
    /\ session_state = [k \in {} |-> <<>>]
    /\ pc = "idle"
    /\ option = "Dashboard Overview"
    /\ now = 9125
    /\ messages = <<>>
    /\ output = NoOutput
    /\ load_ok = FALSE
    /\ published = NoTable
    /\ source = NoSource
    /\ memo = NoMemo

\* Lines 6-16: a run starts, the page is drawn afresh and the sidebar is read
Select ==
    /\ pc = "idle"
    /\ \E opt \in Options : option' = opt
    /\ messages' = <<>>
    /\ output' = NoOutput
    /\ load_ok' = FALSE
    /\ pc' = "load"
    /\ UNCHANGED <<session_state, now, published, source, memo>>

\* load_main, tabulated over the files and the days
LoadTable == [f \in Files \cup FilesIdem, d \in Nows |-> load_main(f, d)]

\* Load with the table kept from an earlier run instead of read again
LoadOnce(files) ==
    \E file \in files, t \in {d \in Nows : d >= now} :
        LET res == LoadTable[file, t]
            cached == "data" \in DOMAIN session_state
        IN  /\ pc = "load"
            /\ now' = t
            /\ load_ok' = (cached \/ res.ok)
            /\ IF cached
               THEN /\ pc' = "view"
                    /\ UNCHANGED <<session_state, published, source, messages>>
               ELSE IF res.ok
               THEN /\ session_state' = [k \in {"data"} |-> res.data]
                    /\ published' = [set |-> TRUE, data |-> res.data]
                    /\ source' = [set |-> TRUE, rows |-> file.rows, now |-> t]
                    /\ messages' = messages
                    /\ pc' = "view"
               ELSE /\ messages' = Append(messages, Error("Error loading the main data"))
                    /\ pc' = "idle"
                    /\ UNCHANGED <<session_state, published, source>>
            /\ UNCHANGED <<option, output, memo>>

\* Load with line 50 missing: after the error the script goes on to the views
LoadFallsThrough(files) ==
    \E file \in files, t \in {d \in Nows : d >= now} :
        LET res == LoadTable[file, t]
        IN  /\ pc = "load"
            /\ now' = t
            /\ load_ok' = res.ok
            /\ pc' = "view"
            /\ IF res.ok
               THEN /\ session_state' = [k \in {"data"} |-> res.data]
                    /\ published' = [set |-> TRUE, data |-> res.data]
                    /\ source' = [set |-> TRUE, rows |-> file.rows, now |-> t]
                    /\ messages' = messages
               ELSE /\ messages' = Append(messages, Error("Error loading the main data"))
                    /\ UNCHANGED <<session_state, published, source>>
            /\ UNCHANGED <<option, output, memo>>

\* Lines 22-50: the main list is loaded and line 46 publishes the table.  On an
\* exception line 49 reports it and line 50 returns.
Load(files) ==
    \E file \in files, t \in {d \in Nows : d >= now} :
        LET res == LoadTable[file, t]
        IN  /\ pc = "load"
            /\ now' = t
            /\ load_ok' = res.ok
            /\ IF res.ok
               THEN /\ session_state' = [k \in DOMAIN session_state \cup {"data"} |->
                                            IF k = "data" THEN res.data ELSE session_state[k]]
                    /\ published' = [set |-> TRUE, data |-> res.data]
                    /\ source' = [set |-> TRUE, rows |-> file.rows, now |-> t]
                    /\ messages' = messages
                    /\ pc' = "view"
               ELSE /\ messages' = Append(messages, Error("Error loading the main data"))
                    /\ pc' = "idle"
                    /\ UNCHANGED <<session_state, published, source>>
            /\ UNCHANGED <<option, output, memo>>

\* The end of a run that rendered `out`
Render(out) ==
    /\ output' = out
    /\ pc' = "idle"
    /\ UNCHANGED <<option, now, messages, load_ok, published, source>>

\* "if 'data' not in st.session_state: st.error(...); return"
NotLoaded ==
    /\ messages' = Append(messages, Error("Data not loaded."))
    /\ output' = NoOutput
    /\ pc' = "idle"
    /\ UNCHANGED <<session_state, option, now, load_ok, published, source>>

Selected(opt) == pc = "view" /\ option = opt
HasData == "data" \in DOMAIN session_state

\* Lines 53-91
ViewDashboardOverview ==
    /\ Selected("Dashboard Overview")
    /\ IF ~HasData THEN NotLoaded
       ELSE Render(DashboardOverview(session_state["data"])) /\ UNCHANGED session_state

\* Lines 94-96: no guard; a missing key raises out of main
ViewLoadData ==
    /\ Selected("Load Data")
    /\ IF ~HasData
       THEN /\ messages' = Append(messages, [level |-> "exception", text |-> "KeyError"])
            /\ output' = NoOutput
            /\ pc' = "idle"
            /\ UNCHANGED <<session_state, option, now, load_ok, published, source>>
       ELSE Render(LoadData(session_state["data"])) /\ UNCHANGED session_state

\* Lines 99-121
ViewStaffVsDependents ==
    /\ Selected("Staff vs Dependents")
    /\ IF ~HasData THEN NotLoaded
       ELSE Render(StaffVsDependents(session_state["data"])) /\ UNCHANGED session_state

\* Lines 124-131
ViewAgeDistribution ==
    /\ Selected("Age Distribution")
    /\ IF ~HasData THEN NotLoaded
       ELSE Render(AgeDistribution(session_state["data"])) /\ UNCHANGED session_state

\* Lines 134-149
ViewFamilyAnalysis ==
    /\ Selected("Family Analysis")
    /\ IF ~HasData THEN NotLoaded
       ELSE Render(FamilyAnalysis(session_state["data"])) /\ UNCHANGED session_state

\* Lines 152-170
ViewGenderDistribution ==
    /\ Selected("Gender Distribution")
    /\ IF ~HasData THEN NotLoaded
       ELSE Render(GenderDistribution(session_state["data"])) /\ UNCHANGED session_state

\* Lines 173-211: `data` is the object held in st.session_state, and line 182
\* assigns its CAT column
ViewCategoryAnalysis ==
    /\ Selected("Current Members Category Analysis")
    /\ IF ~HasData THEN NotLoaded
       ELSE /\ session_state' = [session_state EXCEPT !["data"] = CleanCAT(@)]
            /\ Render(CategoryAnalysis(CleanCAT(session_state["data"])))

\* Lines 224-265: reads the leavers file; any exception is reported at line 265
ViewLeaversAnalysis ==
    /\ Selected("Leavers Analysis")
    /\ \E file \in LeaverFiles :
          IF ~file.readable
          THEN /\ messages' = Append(messages,
                                     Error("Error loading or processing leavers data"))
               /\ output' = NoOutput
               /\ pc' = "idle"
               /\ UNCHANGED <<option, now, load_ok, published, source>>
          ELSE Render(LeaversAnalysis(file.rows, now))
    /\ UNCHANGED session_state

\* Lines 268-319
ViewLeaversCategoryAnalysis ==
    /\ Selected("Leavers Category Analysis")
    /\ \E file \in LeaverFiles :
          IF ~file.readable
          THEN /\ messages' = Append(messages,
                                     Error("Error loading or processing leavers category data"))
               /\ output' = NoOutput
               /\ pc' = "idle"
               /\ UNCHANGED <<option, now, load_ok, published, source>>
          ELSE Render(LeaversCategoryAnalysis(file.rows, now))
    /\ UNCHANGED session_state

LoadMain == Load(Files)

Next ==
    \/ Select
    \/ LoadMain
    \/ ViewDashboardOverview /\ UNCHANGED memo
    \/ ViewLoadData /\ UNCHANGED memo
    \/ ViewStaffVsDependents /\ UNCHANGED memo
    \/ ViewAgeDistribution /\ UNCHANGED memo
    \/ ViewFamilyAnalysis /\ UNCHANGED memo
    \/ ViewGenderDistribution /\ UNCHANGED memo
    \/ ViewCategoryAnalysis /\ UNCHANGED memo
    \/ ViewLeaversAnalysis /\ UNCHANGED memo
    \/ ViewLeaversCategoryAnalysis /\ UNCHANGED memo

Spec == Init /\ [][Next]_vars

\* The same program on fewer files, with one earlier computation of a view of the
\* main list remembered: the table the load of that run published, the option and
\* what the view rendered
Remember ==
    \/ UNCHANGED memo
    \/ /\ output'.view \in TableViews
       /\ memo' = [set |-> TRUE, option |-> option, table |-> published.data,
                   now |-> now, output |-> output']

LoadIdem == Load(FilesIdem)

NextIdem ==
    \/ Select
    \/ LoadIdem
    \/ ViewDashboardOverview /\ Remember
    \/ ViewLoadData /\ Remember
    \/ ViewStaffVsDependents /\ Remember
    \/ ViewAgeDistribution /\ Remember
    \/ ViewFamilyAnalysis /\ Remember
    \/ ViewGenderDistribution /\ Remember
    \/ ViewCategoryAnalysis /\ Remember
    \/ ViewLeaversAnalysis /\ UNCHANGED memo
    \/ ViewLeaversCategoryAnalysis /\ UNCHANGED memo

SpecIdem == Init /\ [][NextIdem]_vars

-----------------------------------------------------------------------------
(* Properties *)

Held == session_state["data"]
Reported(text) == \E i \in DOMAIN messages : messages[i].text = text

\* x is n/d rounded to the nearest hundredth (d > 0): within half a hundredth
Nearest(x, n, d) ==
    /\ x.kind = "num"
    /\ 2 * (100 * n - x.v * d) <= d
    /\ 2 * (x.v * d - 100 * n) <= d

\* A step of the load that fails leaves st.session_state as it was and reports
\* the error
FailedLoadKeepsState ==
    [][(pc = "load" /\ pc' = "idle") =>
          /\ session_state' = session_state
          /\ Reported("Error loading the main data")']_vars

\* C1: after a load that failed, the table held in the session is exactly the
\* table the most recent successful load published, and no table is held when no
\* load has succeeded.
C1_HeldIsLastPublished ==
    (pc = "idle" /\ ~load_ok) =>
        IF published.set THEN HasData /\ Held = published.data ELSE ~HasData

\* C2: no view changes the table held in the session: a step taken from the
\* position of the views leaves st.session_state as the load published it.
C2_ViewsDoNotMutate == [][pc = "view" => session_state' = session_state]_vars

\* C3: in the published table Relationship is "Member" exactly for the rows whose
\* P/Cont cell is "Y" and "Dependent" for every other row, whatever the raw
\* Relationship cell, Age and Sex are.
C3_RelationshipFromPCont ==
    HasData =>
        /\ source.set
        /\ Len(Held) = Len(source.rows)
        /\ \A i \in DOMAIN Held :
              LET flag == source.rows[i][Position("P/Cont")]
              IN  /\ Held[i]["Relationship"] \in {"Member", "Dependent"}
                  /\ Held[i]["Relationship"] = "Member" <=> flag = "Y"

\* A blank P/Cont classified Dependent beside a row whose raw Relationship said
\* otherwise
C3_Witness ==
    /\ pc = "view"
    /\ \E i \in DOMAIN Held :
          /\ source.rows[i][Position("P/Cont")] = nan
          /\ Held[i]["Relationship"] = "Dependent"
    /\ \E i \in DOMAIN Held :
          /\ source.rows[i][Position("Relationship")] = "Spouse"
          /\ Held[i]["Relationship"] = "Member"

\* The dependents to members ratio a view must show for the table held
IsRatio(x) ==
    LET m == Cardinality({i \in DOMAIN Held : Held[i]["Relationship"] = "Member"})
        d == Cardinality({i \in DOMAIN Held : Held[i]["Relationship"] = "Dependent"})
    IN  IF m > 0 THEN Nearest(x, d, m) ELSE x = Num(0)

\* C4: the ratio shown by Staff vs Dependents and by Family Analysis is
\* count(Dependent) / count(Member) to two decimals when there is a member and 0
\* when there is none; it is always a number.
C4_Ratio ==
    /\ output.view = "Staff vs Dependents" => IsRatio(output.average_dependents_per_staff)
    /\ output.view = "Family Analysis" => IsRatio(output.average_dependents_per_family)

\* Family Analysis of a list of dependents only
C4_Witness ==
    /\ output.view = "Family Analysis"
    /\ output.total_families = 2
    /\ Where(Held, "Relationship", "Member") = {}
    /\ output.average_dependents_per_family = Num(0)

\* Staff vs Dependents of a list of 2 dependents and 3 members: 0.67
C4_WitnessRounded ==
    /\ output.view = "Staff vs Dependents"
    /\ output.dependent_count = 2
    /\ output.staff_count = 3
    /\ output.average_dependents_per_staff = Num(67)

\* The mean age a view must show for the rows at positions S
IsMeanOrZero(x, S) ==
    LET q == {i \in S : Held[i]["Age"].kind = "num"}
    IN  IF q = {} THEN x = Num(0) ELSE Nearest(x, SumAge(Held, q), Cardinality(q))

\* C5: every mean age shown (members and dependents on the dashboard, each
\* category in the category view) is the mean over the rows of the group with a
\* known Age, and 0 for a group without such a row.
C5_MeanAgeOrZero ==
    /\ output.view = "Dashboard Overview" =>
          /\ IsMeanOrZero(output.avg_age_staff, Where(Held, "Relationship", "Member"))
          /\ IsMeanOrZero(output.avg_age_dependents,
                          Where(Held, "Relationship", "Dependent"))
    /\ output.view = "Current Members Category Analysis" =>
          \A x \in DOMAIN output.avg_age_by_cat :
              IsMeanOrZero(output.avg_age_by_cat[x], Where(Held, "CAT", x))

\* C6: the table a successful load publishes has no missing Category.
C6_LoadCleansCategory ==
    pc = "view" => \A i \in DOMAIN Held : Held[i]["CAT"] # nan

C8_WarnsOnUnparsableDates ==
    pc = "view" =>
        \A col \in {"Birth Date", "Entry Date"} :
            (\E i \in DOMAIN source.rows : source.rows[i][Position(col)].kind = "text")
                => Cardinality({i \in DOMAIN messages :
                                   /\ messages[i].level = "warning"
                                   /\ messages[i].text = col}) = 1

\* C9: a view computed again, in a run whose load published the same table as in
\* the remembered run, renders what it rendered then, whichever views ran between.
C9_Idempotent ==
    (memo.set /\ pc = "idle" /\ output.view = memo.option
        /\ published.data = memo.table)
            => output = memo.output

\* The category view computed on a later day on the same table, with a missing
\* Category in it
C9_Witness ==
    /\ memo.set
    /\ pc = "idle"
    /\ memo.now < now
    /\ memo.option = "Current Members Category Analysis"
    /\ output.view = memo.option
    /\ published.data = memo.table
    /\ \E i \in DOMAIN published.data : published.data[i]["CAT"] = nan
    /\ output = memo.output

\* C10: the script is at the views only after the load of the same run has
\* published its table, a view has rendered only in such a run, and neither
\* "Data not loaded." nor a missing key is ever met.
C10_ViewOnlyAfterLoad ==
    /\ pc = "view" =>
          /\ load_ok
          /\ HasData
          /\ Held = published.data
          /\ source.now = now
    /\ output # NoOutput => load_ok
    /\ ~Reported("Data not loaded.")
    /\ ~Reported("KeyError")

\* A run whose load failed while the table of an earlier run is still held
C10_Witness ==
    /\ pc = "idle"
    /\ ~load_ok
    /\ HasData
    /\ Reported("Error loading the main data")
    /\ output = NoOutput

=============================================================================
